---- MODULE Spec2Model ----
(***************************************************************************)
(* Model of the coding assistant of simple-qa-agent/agent.py: the provider *)
(* adapters (OpenAIProvider, AnthropicProvider), the conversation history  *)
(* and the CodingAssistant orchestrator driven by the loop of main.py.     *)
(*                                                                         *)
(* A Python str is a sequence of one-character strings, so that lower(),   *)
(* `in` (substring), == and f-string concatenation are computed as Python  *)
(* computes them.                                                          *)
(***************************************************************************)
EXTENDS Integers, Sequences, FiniteSets, TLC

VARIABLES
  provider,              \* self.provider: the active adapter object
  conversation_history,  \* self.conversation_history
  system_message,        \* the module-level global written by the Anthropic conversion
  log,                   \* the get_response calls since construction or the last clear
  call                   \* the last operation: its arguments, what it sent, what it returned

vars == <<provider, conversation_history, system_message, log, call>>

----------------------------------------------------------------------------
\* Bounds of the model

\* get_response calls between two clears
MaxCalls == 2
\* adapter objects constructed during one run (the first by __init__)
MaxAdapters == 2
\* length of a message list handed to the Anthropic conversion on its own
MaxMessages == 3

----------------------------------------------------------------------------
\* Python values

\* None
None == <<"<None>">>
\* an attribute or global that was never assigned
Unset == <<"<unset>">>

UpperChars == <<"A","B","C","D","E","F","G","H","I","J","K","L","M","N","O","P","Q","R","S","T","U","V","W","X","Y","Z">>
LowerChars == <<"a","b","c","d","e","f","g","h","i","j","k","l","m","n","o","p","q","r","s","t","u","v","w","x","y","z">>

\* str.lower() on one character
lower_char(c) ==
  IF \E i \in 1..Len(UpperChars) : UpperChars[i] = c
  THEN LowerChars[CHOOSE i \in 1..Len(UpperChars) : UpperChars[i] = c]
  ELSE c

\* str.lower()
RECURSIVE lower(_)
lower(s) == IF s = <<>> THEN <<>> ELSE <<lower_char(Head(s))>> \o lower(Tail(s))

\* `kw in s` on two str
Contains(s, kw) ==
  \E i \in 0..(Len(s) - Len(kw)) : \A j \in 1..Len(kw) : s[i + j] = kw[j]

\* any(keyword in text for keyword in keywords)
AnyIn(keywords, text) ==
  \E k \in 1..Len(keywords) : Contains(text, keywords[k])

\* str(x) inside an f-string
Format(x) == IF x = None THEN <<"N","o","n","e">> ELSE x

\* truthiness of a str or None
Truthy(x) == x # None /\ x # <<>>

\* a function that returned v / that raised exception type t with message m
Return(v) == [kind |-> "return", value |-> v, type |-> "", msg |-> <<>>]
Raise(t, m) == [kind |-> "raise", value |-> None, type |-> t, msg |-> m]

Message(role, content) == [role |-> role, content |-> content]

----------------------------------------------------------------------------
\* Provider adapters

OPENAI_API_KEY == <<"e","n","v","-","o","p","e","n","a","i">>
ANTHROPIC_API_KEY == <<"e","n","v","-","a","n","t","h","r","o","p","i","c">>

\* OpenAIProvider.__init__: no model_name attribute until set_model
OpenAIProvider(id, api_key, installed) ==
  IF ~installed
  THEN Raise("ImportError", <<"O","p","e","n","A","I"," ","p","a","c","k","a","g","e"," ","n","o","t"," ","i","n","s","t","a","l","l","e","d","."," ","I","n","s","t","a","l","l"," ","w","i","t","h",":"," ","p","i","p"," ","i","n","s","t","a","l","l"," ","o","p","e","n","a","i">>)
  ELSE Return([id |-> id, vendor |-> "openai",
               api_key |-> IF Truthy(api_key) THEN api_key ELSE OPENAI_API_KEY,
               model_name |-> Unset])

\* AnthropicProvider.__init__
AnthropicProvider(id, api_key, installed) ==
  IF ~installed
  THEN Raise("ImportError", <<"A","n","t","h","r","o","p","i","c"," ","p","a","c","k","a","g","e"," ","n","o","t"," ","i","n","s","t","a","l","l","e","d","."," ","I","n","s","t","a","l","l"," ","w","i","t","h",":"," ","p","i","p"," ","i","n","s","t","a","l","l"," ","a","n","t","h","r","o","p","i","c">>)
  ELSE Return([id |-> id, vendor |-> "anthropic",
               api_key |-> IF Truthy(api_key) THEN api_key ELSE ANTHROPIC_API_KEY,
               model_name |-> <<"c","l","a","u","d","e","-","3","-","o","p","u","s","-","2","0","2","4","0","2","2","9">>])

\* OpenAIProvider.set_model / AnthropicProvider.set_model
set_model(p, model_name) == [p EXCEPT !.model_name = model_name]

\* the first branch of OpenAIProvider.generate_completion's handler
AuthKeywords == << <<"a","u","t","h","e","n","t","i","c","a","t","i","o","n">>, <<"a","u","t","h">>, <<"k","e","y">> >>
\* its second branch
ModelKeywords == << <<"m","o","d","e","l">>, <<"n","o","t"," ","f","o","u","n","d">>, <<"d","o","e","s","n","'","t"," ","e","x","i","s","t">> >>

AuthFailed == <<"A","u","t","h","e","n","t","i","c","a","t","i","o","n"," ","f","a","i","l","e","d","."," ","P","l","e","a","s","e"," ","c","h","e","c","k"," ","y","o","u","r"," ","A","P","I"," ","k","e","y",".">>
ModelNotAvailable(model_name) ==
  <<"T","h","e"," ","m","o","d","e","l"," ","'">> \o Format(model_name) \o <<"'"," ","i","s"," ","n","o","t"," ","a","v","a","i","l","a","b","l","e","."," ","P","l","e","a","s","e"," ","t","r","y"," ","a"," ","d","i","f","f","e","r","e","n","t"," ","m","o","d","e","l",".">>

\* the except branch of OpenAIProvider.generate_completion, e = str(e)
OpenAIClassifyNoLower(p, e) ==
  IF AnyIn(AuthKeywords, e) THEN AuthFailed
  ELSE IF AnyIn(ModelKeywords, e) THEN ModelNotAvailable(p.model_name)
  ELSE <<"E","r","r","o","r",":"," ">> \o e

OpenAIClassify(p, e) ==
  LET error_message == lower(e) IN
    IF AnyIn(AuthKeywords, error_message) THEN AuthFailed
    ELSE IF AnyIn(ModelKeywords, error_message) THEN ModelNotAvailable(p.model_name)
    ELSE <<"E","r","r","o","r",":"," ">> \o e

\* AnthropicProvider._convert_messages_to_anthropic_format; g is the global
\* system_message before the call. The global is assigned by every system
\* message of the list and read after the loop; reading it raises NameError
\* when nothing ever assigned it.
convert_messages_to_anthropic_format(messages, g) ==
  LET systems == SelectSeq(messages, LAMBDA m : m.role = "system")
      rest == SelectSeq(messages, LAMBDA m : m.role \in {"user", "assistant"})
      g2 == IF Len(systems) > 0 THEN systems[Len(systems)].content ELSE g
  IN [system_message |-> g2,
      result |-> IF g2 = Unset
                 THEN Raise("NameError", <<"n","a","m","e"," ","'","s","y","s","t","e","m","_","m","e","s","s","a","g","e","'"," ","i","s"," ","n","o","t"," ","d","e","f","i","n","e","d">>)
                 ELSE Return(IF Truthy(g2) THEN <<Message("system", g2)>> \o rest ELSE rest)]

\* What the vendor's endpoint does with one request: a reply or an exception.
VendorOk(text) == [ok |-> TRUE, text |-> text]
VendorFails(e) == [ok |-> FALSE, text |-> e]

\* OpenAIProvider.generate_completion: (text, error) and the global
OpenAI_generate_completion(p, messages, vendor, g) ==
  IF vendor.ok
  THEN [text |-> vendor.text, error |-> None, system_message |-> g]
  ELSE [text |-> None, error |-> OpenAIClassify(p, vendor.text), system_message |-> g]

\* AnthropicProvider.generate_completion: (text, error) and the global
Anthropic_generate_completion(p, messages, vendor, g) ==
  LET c == convert_messages_to_anthropic_format(messages, g) IN
    IF c.result.kind = "raise"
    THEN [text |-> None, error |-> <<"A","n","t","h","r","o","p","i","c"," ","A","P","I"," ","e","r","r","o","r",":"," ">> \o c.result.msg,
          system_message |-> c.system_message]
    ELSE IF vendor.ok
    THEN [text |-> vendor.text, error |-> None, system_message |-> c.system_message]
    ELSE [text |-> None, error |-> <<"A","n","t","h","r","o","p","i","c"," ","A","P","I"," ","e","r","r","o","r",":"," ">> \o vendor.text,
          system_message |-> c.system_message]

\* self.provider.generate_completion(messages): dispatch on the adapter's class
generate_completion(p, messages, vendor, g) ==
  IF p.vendor = "openai"
  THEN OpenAI_generate_completion(p, messages, vendor, g)
  ELSE Anthropic_generate_completion(p, messages, vendor, g)

----------------------------------------------------------------------------
\* CodingAssistant

\* self.system_prompt: the opening sentence of the prompt; the guidelines that
\* follow it in the literal are text the program never inspects.
system_prompt ==
  <<"Y","o","u"," ","a","r","e"," ","a"," ","s","p","e","c","i","a","l","i","z","e","d"," ","c","o","d","i","n","g"," ","a","s","s","i","s","t","a","n","t"," ","f","o","c","u","s","e","d"," ","e","x","c","l","u","s","i","v","e","l","y"," ","o","n"," ","p","r","o","g","r","a","m","m","i","n","g","-","r","e","l","a","t","e","d"," ","q","u","e","r","i","e","s",".">>

coding_keywords ==
  <<
    <<"c","o","d","e">>,
    <<"p","r","o","g","r","a","m">>,
    <<"f","u","n","c","t","i","o","n">>,
    <<"c","l","a","s","s">>,
    <<"m","e","t","h","o","d">>,
    <<"v","a","r","i","a","b","l","e">>,
    <<"a","l","g","o","r","i","t","h","m">>,
    <<"d","a","t","a"," ","s","t","r","u","c","t","u","r","e">>,
    <<"a","p","i">>,
    <<"f","r","a","m","e","w","o","r","k">>,
    <<"l","i","b","r","a","r","y">>,
    <<"d","e","b","u","g","g","i","n","g">>,
    <<"e","r","r","o","r">>,
    <<"e","x","c","e","p","t","i","o","n">>,
    <<"s","y","n","t","a","x">>,
    <<"c","o","m","p","i","l","e","r">>,
    <<"i","n","t","e","r","p","r","e","t","e","r">>,
    <<"r","u","n","t","i","m","e">>,
    <<"d","e","v","e","l","o","p","m","e","n","t">>,
    <<"s","o","f","t","w","a","r","e">>,
    <<"g","i","t">>,
    <<"h","t","m","l">>,
    <<"c","s","s">>,
    <<"j","a","v","a","s","c","r","i","p","t">>,
    <<"p","y","t","h","o","n">>,
    <<"j","a","v","a">>,
    <<"c","+","+">>,
    <<"c","#">>,
    <<"r","u","b","y">>,
    <<"p","h","p">>,
    <<"s","q","l">>,
    <<"d","a","t","a","b","a","s","e">>,
    <<"f","r","o","n","t","e","n","d">>,
    <<"b","a","c","k","e","n","d">>,
    <<"f","u","l","l","s","t","a","c","k">>,
    <<"w","e","b">>,
    <<"m","o","b","i","l","e">>,
    <<"a","p","p">>,
    <<"d","e","v","e","l","o","p","m","e","n","t">>,
    <<"d","e","v","o","p","s">>,
    <<"c","l","o","u","d">>,
    <<"s","e","r","v","e","r">>,
    <<"c","l","i","e","n","t">>,
    <<"a","p","i">>,
    <<"r","e","s","t">>,
    <<"j","s","o","n">>,
    <<"x","m","l">>,
    <<"h","t","t","p">>,
    <<"r","e","q","u","e","s","t">>,
    <<"r","e","s","p","o","n","s","e">>,
    <<"a","s","y","n","c">>,
    <<"p","r","o","m","i","s","e">>,
    <<"c","a","l","l","b","a","c","k">>,
    <<"b","u","g">>,
    <<"f","i","x">>,
    <<"i","s","s","u","e">>,
    <<"i","m","p","l","e","m","e","n","t">>,
    <<"f","e","a","t","u","r","e">>,
    <<"t","e","s","t">>,
    <<"u","n","i","t"," ","t","e","s","t">>,
    <<"i","n","t","e","g","r","a","t","i","o","n"," ","t","e","s","t">>,
    <<"d","e","p","l","o","y","m","e","n","t">>,
    <<"b","u","i","l","d">>,
    <<"p","a","c","k","a","g","e">>,
    <<"m","o","d","u","l","e">>,
    <<"i","m","p","o","r","t">>,
    <<"e","x","p","o","r","t">>,
    <<"d","e","p","e","n","d","e","n","c","y">>,
    <<"n","p","m">>,
    <<"p","i","p">>,
    <<"g","e","m">>,
    <<"n","u","g","e","t">>,
    <<"d","o","c","k","e","r">>,
    <<"k","u","b","e","r","n","e","t","e","s">>,
    <<"c","o","n","t","a","i","n","e","r">>,
    <<"v","i","r","t","u","a","l"," ","m","a","c","h","i","n","e">>,
    <<"v","m">>,
    <<"i","d","e">>,
    <<"e","d","i","t","o","r">>,
    <<"t","e","r","m","i","n","a","l">>,
    <<"c","o","m","m","a","n","d"," ","l","i","n","e">>,
    <<"s","h","e","l","l">>,
    <<"b","a","s","h">>,
    <<"p","o","w","e","r","s","h","e","l","l">>,
    <<"s","c","r","i","p","t">>,
    <<"a","u","t","o","m","a","t","i","o","n">>,
    <<"c","i","/","c","d">>,
    <<"c","o","n","t","i","n","u","o","u","s"," ","i","n","t","e","g","r","a","t","i","o","n">>,
    <<"v","e","r","s","i","o","n"," ","c","o","n","t","r","o","l">>,
    <<"r","e","p","o","s","i","t","o","r","y">>,
    <<"c","o","m","m","i","t">>,
    <<"m","e","r","g","e">>,
    <<"p","u","l","l"," ","r","e","q","u","e","s","t">>,
    <<"b","r","a","n","c","h">>,
    <<"c","h","e","c","k","o","u","t">>,
    <<"c","l","o","n","e">>,
    <<"f","o","r","k">>,
    <<"o","p","e","n"," ","s","o","u","r","c","e">>,
    <<"l","i","c","e","n","s","e">>,
    <<"o","w","n","e","r","s","h","i","p">>
  >>

Refusal ==
  <<"I","'","m"," ","a"," ","s","p","e","c","i","a","l","i","z","e","d"," ","c","o","d","i","n","g"," ","a","s","s","i","s","t","a","n","t"," ","a","n","d"," ","c","a","n"," ","o","n","l","y"," ","h","e","l","p"," ","w","i","t","h"," ","p","r","o","g","r","a","m","m","i","n","g","-","r","e","l","a","t","e","d"," ","q","u","e","s","t","i","o","n","s","."," ">>
  \o <<"P","l","e","a","s","e"," ","a","s","k"," ","m","e"," ","a","b","o","u","t"," ","c","o","d","i","n","g",","," ","s","o","f","t","w","a","r","e"," ","d","e","v","e","l","o","p","m","e","n","t",","," ","a","l","g","o","r","i","t","h","m","s",","," ","d","e","b","u","g","g","i","n","g",","," ","o","r"," ","r","e","l","a","t","e","d"," ","t","o","p","i","c","s",".">>

\* the default-model branches shared by __init__ and change_provider: they
\* compare provider_name itself, not its lowercase form
DefaultModel(provider_name, model_name) ==
  IF model_name = None
  THEN IF provider_name = <<"o","p","e","n","a","i">> THEN <<"g","p","t","-","3",".","5","-","t","u","r","b","o">>
       ELSE IF provider_name = <<"a","n","t","h","r","o","p","i","c">> THEN <<"c","l","a","u","d","e","-","3","-","h","a","i","k","u","-","2","0","2","4","0","3","0","7">>
       ELSE None
  ELSE model_name

\* CodingAssistant._get_provider; id names the object a constructor would make
get_provider(provider_name, api_key, id, installed) ==
  IF lower(provider_name) = <<"o","p","e","n","a","i">> THEN OpenAIProvider(id, api_key, installed)
  ELSE IF lower(provider_name) = <<"a","n","t","h","r","o","p","i","c">> THEN AnthropicProvider(id, api_key, installed)
  ELSE Raise("ValueError", <<"U","n","s","u","p","p","o","r","t","e","d"," ","p","r","o","v","i","d","e","r",":"," ">> \o provider_name)

\* CodingAssistant.add_to_history, on the list
add_to_history_front(history, role, content) ==
  <<Message(role, content)>> \o history

add_to_history(history, role, content) ==
  Append(history, Message(role, content))

\* CodingAssistant.is_coding_related
is_coding_related(query) ==
  LET query_lower == lower(query) IN AnyIn(coding_keywords, query_lower)

\* the message list get_response builds from the history
build_messages_window(history) ==
  <<Message("system", system_prompt)>>
    \o SubSeq(history, IF Len(history) > 2 THEN Len(history) - 1 ELSE 1, Len(history))

build_messages(history) ==
  <<Message("system", system_prompt)>> \o history

\* no call of generate_completion
NotCalled == [called |-> FALSE, messages |-> <<>>]
Called(messages) == [called |-> TRUE, messages |-> messages]

\* CodingAssistant.get_response. self is the assistant's fields, g the global
\* system_message, vendor what the endpoint answers if it is asked.
get_response_append_first(self, user_input, vendor, g) ==
  LET h1 == add_to_history(self.conversation_history, "user", user_input) IN
    IF ~is_coding_related(user_input)
    THEN [self |-> [self EXCEPT !.conversation_history = h1], system_message |-> g,
          sent |-> NotCalled, error |-> None, result |-> Return(Refusal)]
    ELSE LET messages == build_messages(h1)
             r == generate_completion(self.provider, messages, vendor, g)
         IN IF Truthy(r.error)
            THEN [self |-> [self EXCEPT !.conversation_history = h1],
                  system_message |-> r.system_message,
                  sent |-> Called(messages), error |-> r.error,
                result |-> Return(<<"E","r","r","o","r",":"," ">> \o r.error)]
            ELSE [self |-> [self EXCEPT !.conversation_history =
                                          add_to_history(h1, "assistant", r.text)],
                  system_message |-> r.system_message,
                  sent |-> Called(messages), error |-> r.error, result |-> Return(r.text)]

get_response(self, user_input, vendor, g) ==
  IF ~is_coding_related(user_input)
  THEN [self |-> self, system_message |-> g, sent |-> NotCalled, error |-> None, result |-> Return(Refusal)]
  ELSE LET h1 == add_to_history(self.conversation_history, "user", user_input)
           messages == build_messages(h1)
           r == generate_completion(self.provider, messages, vendor, g)
       IN IF Truthy(r.error)
          THEN [self |-> [self EXCEPT !.conversation_history = h1],
                system_message |-> r.system_message,
                sent |-> Called(messages), error |-> r.error,
                result |-> Return(<<"E","r","r","o","r",":"," ">> \o r.error)]
          ELSE [self |-> [self EXCEPT !.conversation_history =
                                        add_to_history(h1, "assistant", r.text)],
                system_message |-> r.system_message,
                sent |-> Called(messages), error |-> r.error, result |-> Return(r.text)]

\* the try block of change_provider: the new adapter, or the exception
change_provider_try(self, provider_name, model_name, api_key, installed) ==
  LET made == get_provider(provider_name, api_key, self.provider.id + 1, installed) IN
    IF made.kind = "raise" THEN made
    ELSE Return(set_model(made.value, DefaultModel(provider_name, model_name)))

\* CodingAssistant.change_provider
change_provider_catch_ValueError(self, provider_name, model_name, api_key, installed) ==
  LET t == change_provider_try(self, provider_name, model_name, api_key, installed) IN
    IF t.kind = "raise"
    THEN [self |-> self,
          result |-> IF t.type = "ValueError"
                     THEN Return(<<"E","r","r","o","r"," ","c","h","a","n","g","i","n","g"," ","p","r","o","v","i","d","e","r",":"," ">> \o t.msg)
                     ELSE t]
    ELSE [self |-> [self EXCEPT !.provider = t.value],
          result |-> Return(<<"P","r","o","v","i","d","e","r"," ","c","h","a","n","g","e","d"," ","t","o"," ">> \o provider_name \o <<" ","u","s","i","n","g"," ","m","o","d","e","l"," ">>
                            \o Format(DefaultModel(provider_name, model_name)))]

change_provider(self, provider_name, model_name, api_key, installed) ==
  LET t == change_provider_try(self, provider_name, model_name, api_key, installed) IN
    IF t.kind = "raise"
    THEN [self |-> self, result |-> Return(<<"E","r","r","o","r"," ","c","h","a","n","g","i","n","g"," ","p","r","o","v","i","d","e","r",":"," ">> \o t.msg)]
    ELSE [self |-> [self EXCEPT !.provider = t.value],
          result |-> Return(<<"P","r","o","v","i","d","e","r"," ","c","h","a","n","g","e","d"," ","t","o"," ">> \o provider_name \o <<" ","u","s","i","n","g"," ","m","o","d","e","l"," ">>
                            \o Format(DefaultModel(provider_name, model_name)))]

\* CodingAssistant.change_model
change_model(self, model_name) ==
  [self |-> [self EXCEPT !.provider = set_model(self.provider, model_name)],
   result |-> Return(<<"M","o","d","e","l"," ","c","h","a","n","g","e","d"," ","t","o"," ">> \o Format(model_name))]

\* CodingAssistant.clear_history
clear_history(self) ==
  [self |-> [self EXCEPT !.conversation_history = <<>>],
   result |-> Return(<<"C","o","n","v","e","r","s","a","t","i","o","n"," ","h","i","s","t","o","r","y"," ","c","l","e","a","r","e","d",".">>)]

\* CodingAssistant.__init__ as main.py calls it: CodingAssistant()
CodingAssistant_init ==
  LET provider_name == <<"o","p","e","n","a","i">>
      made == get_provider(provider_name, None, 1, TRUE)
  IN [provider |-> set_model(made.value, DefaultModel(provider_name, None)),
      conversation_history |-> <<>>]

----------------------------------------------------------------------------
\* The inputs of the model

\* lines typed at the prompt of main.py that reach get_response
UserInputs ==
  { <<"H","i"," ","t","h","e","r","e">>, <<"F","i","x"," ","m","y"," ","C","O","D","E">> }

\* what the endpoint may answer: a text (possibly empty) or an exception text
Replies == { <<"U","s","e"," ","p","r","i","n","t","(",")",".">>, <<>> }
ErrorTexts == { <<"I","n","v","a","l","i","d"," ","K","e","y">>, <<"Q","u","o","t","a"," ","e","x","c","e","e","d","e","d">>, <<"f","o","o"," ","b","a","r">> }
VendorOutcomes == {VendorOk(t) : t \in Replies} \cup {VendorFails(e) : e \in ErrorTexts}
NoVendor == [ok |-> FALSE, text |-> None]

\* provider <name> [model] [api_key]
ProviderNames == { <<"o","p","e","n","a","i">>, <<"a","n","t","h","r","o","p","i","c">>, <<"O","p","e","n","A","I">>, <<"g","e","m","i","n","i">> }
ModelArgs == { None, <<"g","p","t","-","4">> }
KeyArgs == { None }

\* model <name>
ModelNames == { <<"g","p","t","-","4">> }

\* message lists for the Anthropic conversion
ConvertMessages ==
  { Message("system", system_prompt), Message("system", <<"B","e"," ","b","r","i","e","f",".">>),
    Message("user", <<"F","i","x"," ","m","y"," ","C","O","D","E">>), Message("assistant", <<"U","s","e"," ","p","r","i","n","t","(",")",".">>) }
MessageLists ==
  UNION { [1..n -> ConvertMessages] : n \in 0..MaxMessages }

----------------------------------------------------------------------------
\* The state machine

Self == [provider |-> provider, conversation_history |-> conversation_history]

NoCall ==
  [op |-> "init", args |-> <<>>, vendor |-> NoVendor, sent |-> NotCalled,
   error |-> None, result |-> Return(None)]

Init ==
  /\ provider = CodingAssistant_init.provider
  /\ conversation_history = CodingAssistant_init.conversation_history
  /\ system_message = Unset
  /\ log = <<>>
  /\ call = NoCall

\* how one get_response call ended: refused by the gate, provider error, or text
Outcome(r) ==
  IF ~r.sent.called THEN "refused"
  ELSE IF Truthy(r.error) THEN "error"
  ELSE "ok"

\* main.py: any other non-empty line -> assistant.get_response(user_input)
Respond ==
  /\ Len(log) < MaxCalls
  /\ \E user_input \in UserInputs, vendor \in VendorOutcomes :
       LET r == get_response(Self, user_input, vendor, system_message) IN
         /\ provider' = r.self.provider
         /\ conversation_history' = r.self.conversation_history
         /\ system_message' = r.system_message
         /\ log' = Append(log, [input |-> user_input, outcome |-> Outcome(r),
                                reply |-> IF Outcome(r) = "ok" THEN r.result.value ELSE None])
         /\ call' = [op |-> "get_response", args |-> <<user_input>>,
                     vendor |-> IF r.sent.called THEN vendor ELSE NoVendor,
                     sent |-> r.sent, error |-> r.error, result |-> r.result]

\* main.py: provider <name> [model] [api_key] -> assistant.change_provider(...)
ChangeProvider ==
  /\ provider.id < MaxAdapters
  /\ \E provider_name \in ProviderNames, model_name \in ModelArgs,
        api_key \in KeyArgs, installed \in BOOLEAN :
       LET r == change_provider(Self, provider_name, model_name, api_key, installed) IN
         /\ provider' = r.self.provider
         /\ conversation_history' = r.self.conversation_history
         /\ call' = [op |-> "change_provider", args |-> <<provider_name, model_name, api_key>>,
                     vendor |-> NoVendor, sent |-> NotCalled, error |-> None,
                     result |-> r.result]
  /\ UNCHANGED <<system_message, log>>

\* main.py: model <name> -> assistant.change_model(new_model)
ChangeModel ==
  /\ \E model_name \in ModelNames :
       LET r == change_model(Self, model_name) IN
         /\ provider' = r.self.provider
         /\ conversation_history' = r.self.conversation_history
         /\ call' = [op |-> "change_model", args |-> <<model_name>>,
                     vendor |-> NoVendor, sent |-> NotCalled, error |-> None,
                     result |-> r.result]
  /\ UNCHANGED <<system_message, log>>

\* main.py: clear -> assistant.clear_history()
ClearHistory ==
  /\ LET r == clear_history(Self) IN
       /\ provider' = r.self.provider
       /\ conversation_history' = r.self.conversation_history
       /\ call' = [op |-> "clear_history", args |-> <<>>,
                   vendor |-> NoVendor, sent |-> NotCalled, error |-> None,
                   result |-> r.result]
  /\ log' = <<>>
  /\ UNCHANGED system_message

Next == Respond \/ ChangeProvider \/ ChangeModel \/ ClearHistory

Spec == Init /\ [][Next]_vars

\* The Anthropic conversion on its own: any message list, call after call
Convert ==
  /\ \E messages \in MessageLists :
       LET c == convert_messages_to_anthropic_format(messages, system_message) IN
         /\ system_message' = c.system_message
         /\ call' = [op |-> "convert", args |-> <<messages>>,
                     vendor |-> NoVendor, sent |-> NotCalled, error |-> None,
                     result |-> c.result]
  /\ UNCHANGED <<provider, conversation_history, log>>

ConvertNext == Convert

ConvertSpec == Init /\ [][ConvertNext]_vars

----------------------------------------------------------------------------
\* Vocabulary of the properties

\* s.startswith(prefix)
StartsWith(s, prefix) ==
  Len(s) >= Len(prefix) /\ SubSeq(s, 1, Len(prefix)) = prefix

\* the last operation was a get_response that asked the provider
AskedProvider(c) == c.op = "get_response" /\ c.sent.called

\* ... and the provider returned an error
FailedRespond(c) == AskedProvider(c) /\ Truthy(c.error)

\* change_provider returned its error string / its confirmation
SwitchError(c) ==
  c.op = "change_provider" /\ c.result.kind = "return"
    /\ StartsWith(c.result.value, <<"E","r","r","o","r"," ","c","h","a","n","g","i","n","g"," ","p","r","o","v","i","d","e","r",":"," ">>)
SwitchConfirmed(c) ==
  c.op = "change_provider" /\ c.result.kind = "return"
    /\ StartsWith(c.result.value, <<"P","r","o","v","i","d","e","r"," ","c","h","a","n","g","e","d"," ","t","o"," ">>)

\* the default model the specification gives each vendor identifier
VendorDefault(vendor_id) ==
  IF vendor_id = <<"o","p","e","n","a","i">> THEN <<"g","p","t","-","3",".","5","-","t","u","r","b","o">> ELSE <<"c","l","a","u","d","e","-","3","-","h","a","i","k","u","-","2","0","2","4","0","3","0","7">>

KnownVendors == { <<"o","p","e","n","a","i">>, <<"a","n","t","h","r","o","p","i","c">> }

\* the ordered keyword classifier of the specification's error-handling section
SpecClassify(text) ==
  LET t == lower(text) IN
    IF AnyIn(<< <<"a","u","t","h","e","n","t","i","c","a","t","i","o","n">>, <<"a","u","t","h">>, <<"k","e","y">>, <<"i","n","v","a","l","i","d"," ","k","e","y">> >>, t) THEN "Authentication"
    ELSE IF AnyIn(<< <<"r","a","t","e"," ","l","i","m","i","t">>, <<"r","a","t","e","l","i","m","i","t">>, <<"r","e","q","u","e","s","t","s">>, <<"q","u","o","t","a">> >>, t) THEN "RateLimit"
    ELSE IF AnyIn(<< <<"m","o","d","e","l">>, <<"n","o","t"," ","f","o","u","n","d">>, <<"d","o","e","s","n","'","t"," ","e","x","i","s","t">>, <<"d","o","e","s"," ","n","o","t"," ","e","x","i","s","t">> >>, t)
      THEN "ModelUnavailable"
    ELSE IF AnyIn(<< <<"c","o","n","n","e","c","t","i","o","n">>, <<"n","e","t","w","o","r","k">>, <<"t","i","m","e","o","u","t">>, <<"c","o","n","n","e","c","t">> >>, t)
      THEN "ConnectionFailure"
    ELSE "Other"

\* the kind an adapter's error message stands for; raw is the vendor's text
KindOf(error, raw, model_name) ==
  IF error = AuthFailed THEN "Authentication"
  ELSE IF error = ModelNotAvailable(model_name) THEN "ModelUnavailable"
  ELSE IF error = <<"E","r","r","o","r",":"," ">> \o raw \/ error = <<"A","n","t","h","r","o","p","i","c"," ","A","P","I"," ","e","r","r","o","r",":"," ">> \o raw THEN "Other"
  ELSE "Unknown"

SystemsOf(messages) == SelectSeq(messages, LAMBDA m : m.role = "system")
OthersOf(messages) == SelectSeq(messages, LAMBDA m : m.role # "system")

----------------------------------------------------------------------------
\* Properties

\* C1: a get_response call whose provider returns an error leaves the
\* conversation history exactly as it was before the call.
C1_FailedRespondKeepsHistory ==
  [][FailedRespond(call') => conversation_history' = conversation_history]_vars

\* C2: while every get_response call since construction (or the last clear)
\* was successful, the history has two entries per call: the i-th user input
\* followed by the i-th assistant reply, in call order.
C2_TwoEntriesPerSuccessfulCall ==
  (\A i \in 1..Len(log) : log[i].outcome = "ok") =>
    /\ Len(conversation_history) = 2 * Len(log)
    /\ \A i \in 1..Len(log) :
         /\ conversation_history[2 * i - 1] = Message("user", log[i].input)
         /\ conversation_history[2 * i] = Message("assistant", log[i].reply)

C2_Witness ==
  /\ Len(log) = 2
  /\ \A i \in 1..Len(log) : log[i].outcome = "ok"
  /\ log[1].reply # log[2].reply
  /\ call.op = "get_response"

\* C3: an input that fails the topic gate gets the fixed refusal, the provider
\* is not called, and the history, the active provider and its model stay as
\* they were.
C3_GateRefusalTouchesNothing ==
  [][(call'.op = "get_response" /\ ~is_coding_related(call'.args[1])) =>
       /\ call'.result = Return(Refusal)
       /\ ~call'.sent.called
       /\ conversation_history' = conversation_history
       /\ provider' = provider]_vars

C3_Witness ==
  /\ call.op = "get_response"
  /\ ~is_coding_related(call.args[1])
  /\ call.result = Return(Refusal)
  /\ Len(conversation_history) > 0

\* C4: change_provider never raises, whatever the provider name, model and
\* key: it returns a string, a confirmation or an error message, and the
\* history after the call is the history before it.
C4_SwitchProviderNeverRaises ==
  [][call'.op = "change_provider" =>
       /\ call'.result.kind = "return"
       /\ (SwitchConfirmed(call') \/ SwitchError(call'))
       /\ conversation_history' = conversation_history]_vars

C4_Witness ==
  /\ SwitchError(call)
  /\ StartsWith(call.result.value, <<"E","r","r","o","r"," ","c","h","a","n","g","i","n","g"," ","p","r","o","v","i","d","e","r",":"," ","A","n","t","h","r","o","p","i","c"," ","p","a","c","k","a","g","e"," ","n","o","t"," ","i","n","s","t","a","l","l","e","d">>)
  /\ Len(conversation_history) > 0

\* C5: a switch to a name accepted as a known vendor (in any letter case),
\* with the model omitted, selects that vendor's default model, never None.
C5_DefaultModelOnSwitch ==
  (SwitchConfirmed(call) /\ call.args[2] = None /\ lower(call.args[1]) \in KnownVendors) =>
    provider.model_name = VendorDefault(lower(call.args[1]))

C7_OneSystemEntryFromThisList ==
  call.op = "convert" =>
    LET input == call.args[1]
        out == call.result
    IN /\ out.kind = "return"
       /\ OthersOf(out.value) = OthersOf(input)
       /\ IF SystemsOf(input) # <<>>
          THEN /\ Len(SystemsOf(out.value)) = 1
               /\ out.value[1] = SystemsOf(input)[Len(SystemsOf(input))]
          ELSE SystemsOf(out.value) = <<>>

\* C8: every entry of the conversation history has one of the three roles and
\* a non-empty content.
C8_HistoryEntriesNonEmpty ==
  \A i \in 1..Len(conversation_history) :
    /\ conversation_history[i].role \in {"system", "user", "assistant"}
    /\ Truthy(conversation_history[i].content)

\* C9: the message list handed to generate_completion is the system prompt
\* entry, then the whole history as it stood before the call, then the user
\* entry of the current input.
C9_WholeHistoryIsSent ==
  [][AskedProvider(call') =>
       call'.sent.messages =
         <<Message("system", system_prompt)>> \o conversation_history
           \o <<Message("user", call'.args[1])>>]_vars

C9_Witness ==
  /\ AskedProvider(call)
  /\ Len(call.sent.messages) >= 4
  /\ call.sent.messages[Len(call.sent.messages)] = Message("user", call.args[1])

\* C10: provider replacement is all-or-nothing: after an error string the
\* active adapter and its model are those of before; after a confirmation the
\* active adapter is the new object of the named vendor with the requested
\* model (the vendor's default when none was given), never without a model.
C10_SwitchIsAllOrNothing ==
  [][call'.op = "change_provider" =>
       IF SwitchConfirmed(call')
       THEN /\ provider'.id = provider.id + 1
            /\ lower(call'.args[1]) = IF provider'.vendor = "openai" THEN <<"o","p","e","n","a","i">> ELSE <<"a","n","t","h","r","o","p","i","c">>
            /\ provider'.model_name =
                 IF call'.args[2] = None THEN VendorDefault(lower(call'.args[1])) ELSE call'.args[2]
            /\ provider'.model_name \notin {None, Unset}
       ELSE provider' = provider]_vars

====
